---- MODULE Spec2Model ----
(***************************************************************************)
(* A model of IncreCache's LFU cache (src/ILfuCache.h): the frequency      *)
(* lists (FreqList), the LFU engine (ILfuCache) and the sharded wrapper    *)
(* (KHashLfuCache).                                                        *)
(*                                                                         *)
(* An engine is a record of the fields of ILfuCache.  nodeMap_ maps each   *)
(* indexed key to its node's value and freq; freqToFreqList_ maps each     *)
(* frequency that has a FreqList to the sequence of nodes linked in it,    *)
(* oldest first.  A linked node is [key, live]: live is TRUE for the node  *)
(* nodeMap_ points to and FALSE for a node that is still linked although   *)
(* the index no longer points to it.  The field fault records that an      *)
(* operation dereferenced a null FreqList pointer.                         *)
(***************************************************************************)
EXTENDS Integers, Sequences, FiniteSets, TLC

\* ---------------------------------------------------------------- bounds
MaxKey == 3
MaxValue == 2
MaxCapacity == 2
MaxSlices == 2
MaxAverage == 2
MaxTotal == 7
MaxThreads == 2
ConcTotal == 3
ConcValue == 1
MaxRun == 2
HotSlack == 1
HotLead == 2

\* ------------------------------------------------------------- constants
INT8_MAX == 127

Keys == 1..MaxKey
Values == 1..MaxValue
NoKey == 0
NoValue == 0
\* What a caller's value variable holds before a get: a value no put stores.
Unset == MaxValue + 1

\* ------------------------------------------------------------- sequences
Range(s) == {s[i] : i \in 1..Len(s)}

\* The permutations of the finite set S, as sequences.
Perms(S) == {p \in [1..Cardinality(S) -> S] : Range(p) = S}

\* s without its first occurrence of x.
RemoveFirst(s, x) ==
    IF x \notin Range(s) THEN s
    ELSE LET i == CHOOSE j \in 1..Len(s) :
                      s[j] = x /\ \A h \in 1..(j - 1) : s[h] # x
         IN  SubSeq(s, 1, i - 1) \o SubSeq(s, i + 1, Len(s))

Min(a, b) == IF a < b THEN a ELSE b

\* ----------------------------------------------------------- finite maps
MapErase(m, k) == [x \in DOMAIN m \ {k} |-> m[x]]
MapPut(m, k, v) == [x \in DOMAIN m \cup {k} |-> IF x = k THEN v ELSE m[x]]
EmptyMap == [x \in {} |-> 0]

\* --------------------------------------------------------------- FreqList
LiveNode(k) == [key |-> k, live |-> TRUE]

\* FreqList::isEmpty
isEmpty(list) == Len(list) = 0

\* FreqList::addNode: link at the tail.
addNode(list, node) == Append(list, node)

\* FreqList::removeNode: unlink; a node that is not linked is left alone.
removeNode(list, node) == RemoveFirst(list, node)

\* FreqList::getFirstNode: head_->next, which is the tail sentinel of an
\* empty list.  The sentinel's key is never initialised: tailKey stands for
\* whatever it holds.
getFirstNode(list, tailKey) ==
    IF isEmpty(list) THEN [key |-> tailKey, live |-> FALSE, tail |-> TRUE]
    ELSE [key |-> Head(list).key, live |-> Head(list).live, tail |-> FALSE]

\* The element of a set of one element.  An operator of the form
\* Only({F(e) : e \in {e0}}) is F(e0) with e0 evaluated once, however often
\* F uses it.
Only(S) == CHOOSE x \in S : TRUE

\* ----------------------------------------------------------------- engine
\* ILfuCache::ILfuCache
NewEngine(capacity, maxAverageNum) ==
    [capacity_ |-> capacity,
     minFreq_ |-> INT8_MAX,
     maxAverageNum_ |-> maxAverageNum,
     curAverageNum_ |-> 0,
     curTotalNum_ |-> 0,
     nodeMap_ |-> EmptyMap,
     freqToFreqList_ |-> EmptyMap,
     fault |-> FALSE]

Size(e) == Cardinality(DOMAIN e.nodeMap_)

\* curTotalNum_ / nodeMap_.size()
Average(e0) ==
    Only({ (
        IF Size(e) = 0 THEN 0 ELSE e.curTotalNum_ \div Size(e)
        ) : e \in {e0} })

\* ILfuCache::removeFromFreqList for the indexed node of key k:
\* freqToFreqList_[freq]->removeNode(node).  operator[] on a missing
\* frequency yields a null pointer, whose dereference is the fault.
removeFromFreqList(e0, k) ==
    Only({ (
        IF e.fault THEN e
        ELSE LET freq == e.nodeMap_[k].freq IN
             IF freq \notin DOMAIN e.freqToFreqList_
             THEN [e EXCEPT !.fault = TRUE]
             ELSE [e EXCEPT !.freqToFreqList_ =
                       [f \in DOMAIN e.freqToFreqList_ |->
                           removeNode(e.freqToFreqList_[f], LiveNode(k))]]
        ) : e \in {e0} })

\* ILfuCache::addToFreqList for the indexed node of key k.
addToFreqList(e0, k) ==
    Only({ (
        IF e.fault THEN e
        ELSE LET freq == e.nodeMap_[k].freq
                 lists == e.freqToFreqList_
                 made == IF freq \in DOMAIN lists THEN lists
                         ELSE MapPut(lists, freq, <<>>)
             IN  [e EXCEPT !.freqToFreqList_ =
                       [made EXCEPT ![freq] = addNode(made[freq], LiveNode(k))]]
        ) : e \in {e0} })

\* ILfuCache::updateMinFreq
updateMinFreq(e0) ==
    Only({ (
        IF e.fault THEN e
        ELSE LET nonEmpty == {f \in DOMAIN e.freqToFreqList_ :
                                 ~isEmpty(e.freqToFreqList_[f])}
                 low == {f \in nonEmpty \cup {INT8_MAX} :
                            \A g \in nonEmpty \cup {INT8_MAX} : f <= g}
                 m == CHOOSE f \in low : TRUE
             IN  [e EXCEPT !.minFreq_ = IF m = INT8_MAX THEN 1 ELSE m]
        ) : e \in {e0} })

\* The loop body of ILfuCache::handleOverMaxAverageNum without its floor of
\* the frequency at 1.
ageNode_noFloor(e, k) ==
    IF e.fault THEN e
    ELSE LET removed == removeFromFreqList(e, k)
             freq == e.nodeMap_[k].freq - (e.maxAverageNum_ \div 2)
         IN  IF removed.fault THEN removed
             ELSE addToFreqList(
                      [removed EXCEPT !.nodeMap_[k].freq = freq], k)

\* The loop body of ILfuCache::handleOverMaxAverageNum for one key.
ageNode(e0, k) ==
    Only({ (
        IF e.fault THEN e
        ELSE LET removed == removeFromFreqList(e, k)
                 lowered == e.nodeMap_[k].freq - (e.maxAverageNum_ \div 2)
                 freq == IF lowered < 1 THEN 1 ELSE lowered
             IN  IF removed.fault THEN removed
                 ELSE addToFreqList(
                          [removed EXCEPT !.nodeMap_[k].freq = freq], k)
        ) : e \in {e0} })

\* The for loop of ILfuCache::handleOverMaxAverageNum over nodeMap_.  order
\* lists all keys; the loop meets the indexed ones in that order.
RECURSIVE ageAll(_, _)
ageAll(e0, order) ==
    Only({ (
        IF Len(order) = 0 THEN e
        ELSE IF Head(order) \in DOMAIN e.nodeMap_
        THEN ageAll(ageNode(e, Head(order)), Tail(order))
        ELSE ageAll(e, Tail(order))
        ) : e \in {e0} })

\* ILfuCache::handleOverMaxAverageNum.  order is the order in which the
\* unordered_map nodeMap_ iterates, which the language leaves open.
handleOverMaxAverageNum(e0, order) ==
    Only({ (
        IF e.fault \/ Size(e) = 0 THEN e
        ELSE updateMinFreq(ageAll(e, order))
        ) : e \in {e0} })

\* The first half of ILfuCache::addFreqNum: count the access and recompute
\* the average.
countAccess(e0) ==
    Only({ (
        LET counted == [e EXCEPT !.curTotalNum_ = e.curTotalNum_ + 1]
        IN  [counted EXCEPT !.curAverageNum_ = Average(counted)]
        ) : e \in {e0} })

\* The test of ILfuCache::addFreqNum that starts an aging pass.
agingDue(e) ==
    ~e.fault /\ countAccess(e).curAverageNum_ > e.maxAverageNum_

\* ILfuCache::addFreqNum
addFreqNum(e0, order) ==
    Only({ (
        IF e.fault THEN e
        ELSE IF agingDue(e) THEN handleOverMaxAverageNum(countAccess(e), order)
        ELSE countAccess(e)
        ) : e \in {e0} })

\* ILfuCache::decreaseFreqNum
decreaseFreqNum(e0, num) ==
    Only({ (
        IF e.fault THEN e
        ELSE LET counted == [e EXCEPT !.curTotalNum_ = e.curTotalNum_ - num]
             IN  [counted EXCEPT !.curAverageNum_ = Average(counted)]
        ) : e \in {e0} })

\* The list with the indexed node of key k, if linked, marked as no longer
\* indexed.
RECURSIVE dropFromIndex(_, _)
dropFromIndex(list, k) ==
    IF Len(list) = 0 THEN <<>>
    ELSE <<IF Head(list) = LiveNode(k) THEN [key |-> k, live |-> FALSE]
           ELSE Head(list)>> \o dropFromIndex(Tail(list), k)

\* nodeMap_.erase(k).  A node of key k that is still linked in a list stays
\* linked, and is no longer the indexed node.
eraseKey(e0, k) ==
    Only({ (
        IF k \notin DOMAIN e.nodeMap_ THEN e
        ELSE [e EXCEPT
                 !.nodeMap_ = MapErase(e.nodeMap_, k),
                 !.freqToFreqList_ =
                     [f \in DOMAIN e.freqToFreqList_ |->
                         dropFromIndex(e.freqToFreqList_[f], k)]]
        ) : e \in {e0} })

\* The node ILfuCache::kickOut takes: freqToFreqList_[minFreq_]->getFirstNode().
kickOutNode(e, tailKey) ==
    getFirstNode(e.freqToFreqList_[e.minFreq_], tailKey)

\* node->freq of the node kickOut takes: the sentinel's is 1, a linked
\* node's is the frequency of the list it is linked in.
kickOutFreq(e, node) ==
    IF node.tail THEN 1
    ELSE IF node.live THEN e.nodeMap_[node.key].freq
    ELSE e.minFreq_

\* ILfuCache::kickOut
kickOut(e0, tailKey) ==
    Only({ (
        IF e.fault THEN e
        ELSE IF e.minFreq_ \notin DOMAIN e.freqToFreqList_
        THEN [e EXCEPT !.fault = TRUE]
        ELSE LET node == kickOutNode(e, tailKey)
                 freq == kickOutFreq(e, node)
             IN  IF freq \notin DOMAIN e.freqToFreqList_
                 THEN [e EXCEPT !.fault = TRUE]
                 ELSE LET unlinked ==
                              IF node.tail THEN e
                              ELSE [e EXCEPT !.freqToFreqList_[freq] =
                                       removeNode(e.freqToFreqList_[freq],
                                           [key |-> node.key, live |-> node.live])]
                      IN  decreaseFreqNum(eraseKey(unlinked, node.key), freq)
        ) : e \in {e0} })

\* ILfuCache::getInternal up to its call of addFreqNum, without its step of
\* minFreq_.
bumpNode_keepMin(e, k) ==
    IF e.fault THEN e
    ELSE LET removed == removeFromFreqList(e, k) IN
         IF removed.fault THEN removed
         ELSE addToFreqList(
                  [removed EXCEPT !.nodeMap_[k].freq = e.nodeMap_[k].freq + 1],
                  k)

\* ILfuCache::getInternal up to its call of addFreqNum: move the indexed
\* node of key k to the list of the next frequency and step minFreq_.
bumpNode(e0, k) ==
    Only({ (
        IF e.fault THEN e
        ELSE LET removed == removeFromFreqList(e, k) IN
             IF removed.fault THEN removed
             ELSE LET freq == e.nodeMap_[k].freq + 1
                      added == addToFreqList(
                                   [removed EXCEPT !.nodeMap_[k].freq = freq], k)
                  IN  IF freq - 1 = added.minFreq_
                         /\ isEmpty(added.freqToFreqList_[freq - 1])
                      THEN [added EXCEPT !.minFreq_ = added.minFreq_ + 1]
                      ELSE added
        ) : e \in {e0} })

\* ILfuCache::getInternal for the indexed node of key k.
getInternal(e0, k, order) ==
    Only({ (
        addFreqNum(bumpNode(e, k), order)
        ) : e \in {e0} })

\* ILfuCache::putInternal up to its call of kickOut.
makeRoom(e0, tailKey) ==
    Only({ (
        IF Size(e) = e.capacity_ THEN kickOut(e, tailKey) ELSE e
        ) : e \in {e0} })

\* ILfuCache::putInternal from the new node to its call of addToFreqList.
linkNew(e0, k, v) ==
    Only({ (
        IF e.fault THEN e
        ELSE LET erased == eraseKey(e, k)
                 indexed == [erased EXCEPT !.nodeMap_ =
                                MapPut(erased.nodeMap_, k,
                                       [value |-> v, freq |-> 1])]
             IN  addToFreqList(indexed, k)
        ) : e \in {e0} })

\* ILfuCache::putInternal
putInternal(e0, k, v, tailKey, order) ==
    Only({ (
        LET added == addFreqNum(linkNew(makeRoom(e, tailKey), k, v), order)
        IN  IF added.fault THEN added
            ELSE [added EXCEPT !.minFreq_ = Min(added.minFreq_, 1)]
        ) : e \in {e0} })

\* ILfuCache::put that keeps the stored value of a key already present.
put_keepValue(e, k, v, tailKey, order) ==
    IF e.capacity_ = 0 THEN e
    ELSE IF k \in DOMAIN e.nodeMap_
    THEN getInternal(e, k, order)
    ELSE putInternal(e, k, v, tailKey, order)

\* ILfuCache::put without its test of capacity_.
put_noCapacityTest(e, k, v, tailKey, order) ==
    IF k \in DOMAIN e.nodeMap_
    THEN getInternal([e EXCEPT !.nodeMap_[k].value = v], k, order)
    ELSE putInternal(e, k, v, tailKey, order)

\* ILfuCache::put
put(e, k, v, tailKey, order) ==
    IF e.capacity_ = 0 THEN e
    ELSE IF k \in DOMAIN e.nodeMap_
    THEN getInternal([e EXCEPT !.nodeMap_[k].value = v], k, order)
    ELSE putInternal(e, k, v, tailKey, order)

\* ILfuCache::get(Key, Value&) that hands back a default value on a miss.
get_missDefault(e, k, out, order) ==
    IF k \in DOMAIN e.nodeMap_
    THEN [engine |-> getInternal(e, k, order), ret |-> TRUE,
          out |-> e.nodeMap_[k].value]
    ELSE [engine |-> e, ret |-> FALSE, out |-> NoValue]

\* ILfuCache::get(Key, Value&): the engine afterwards, the result and the
\* caller's value, which was out before the call.
get(e, k, out, order) ==
    IF k \in DOMAIN e.nodeMap_
    THEN [engine |-> getInternal(e, k, order), ret |-> TRUE,
          out |-> e.nodeMap_[k].value]
    ELSE [engine |-> e, ret |-> FALSE, out |-> out]

\* nodeMap_.clear() of ILfuCache::purge.  The nodes stay linked in their
\* lists, and none is an indexed node any more.
clearMap(e) ==
    [e EXCEPT
        !.nodeMap_ = EmptyMap,
        !.freqToFreqList_ =
            [f \in DOMAIN e.freqToFreqList_ |->
                [n \in 1..Len(e.freqToFreqList_[f]) |->
                    [key |-> e.freqToFreqList_[f][n].key, live |-> FALSE]]]]

\* freqToFreqList_.clear() of ILfuCache::purge.
clearLists(e) == [e EXCEPT !.freqToFreqList_ = EmptyMap]

\* ILfuCache::purge that forgets freqToFreqList_.clear().
purge_keepLists(e) == clearMap(e)

\* ILfuCache::purge
purge(e) == clearLists(clearMap(e))

\* ------------------------------------------------------------ the wrapper
\* KHashLfuCache::Hash: std::hash of an integer key is the key itself.
Hash(k) == k

\* The slice index off by one.
SliceIndex_next(k, sliceNum) == (Hash(k) + 1) % sliceNum

\* size_t sliceIndex = Hash(key) % sliceNum_
SliceIndex(k, sliceNum) == Hash(k) % sliceNum

\* std::ceil(capacity_ / static_cast<double>(sliceNum_))
SliceSize(capacity, sliceNum) == (capacity + sliceNum - 1) \div sliceNum

VARIABLES
    capacity_,        \* KHashLfuCache::capacity_
    sliceNum_,        \* KHashLfuCache::sliceNum_
    lfuSliceCaches_,  \* KHashLfuCache::lfuSliceCaches_: slice index -> engine
    op,               \* the last call: its name, arguments and results
    written,          \* key -> the value of its last put, NoValue once the
                      \* key was evicted or purged
    since,            \* key -> rank of the time it arrived at its frequency
    untouched,        \* the keys never accessed since they were inserted
    threads,          \* thread -> the call it is in and its place in it
    mutex_            \* slice index -> the thread holding ILfuCache::mutex_

vars == <<capacity_, sliceNum_, lfuSliceCaches_, op, written, since, untouched,
          threads, mutex_>>

Threads == 1..MaxThreads
NoThread == 0
Idle == [pc |-> "idle", name |-> "new", key |-> NoKey, value |-> NoValue,
         slice |-> 0, found |-> FALSE]

Slices == DOMAIN lfuSliceCaches_

\* KHashLfuCache::KHashLfuCache
NewCache(capacity, sliceNum, maxAverageNum) ==
    [i \in 0..(sliceNum - 1) |->
        NewEngine(SliceSize(capacity, sliceNum), maxAverageNum)]

NoOp == [name |-> "new", key |-> NoKey, value |-> NoValue, ret |-> FALSE,
         out |-> NoValue, evicted |-> {}, aged |-> FALSE]

InitWith(capacity, sliceNum, maxAverageNum) ==
    /\ capacity_ = capacity
    /\ sliceNum_ = sliceNum
    /\ lfuSliceCaches_ = NewCache(capacity, sliceNum, maxAverageNum)
    /\ op = NoOp
    /\ written = [k \in Keys |-> NoValue]
    /\ since = [k \in Keys |-> 0]
    /\ untouched = {}
    /\ threads = [t \in Threads |-> Idle]
    /\ mutex_ = [i \in 0..(sliceNum - 1) |-> NoThread]

\* A cache of more slices than entries has the engines of one with as many
\* entries as slices, so the model leaves it out.
Init ==
    \E capacity \in 0..MaxCapacity, sliceNum \in 1..MaxSlices,
       maxAverageNum \in 1..MaxAverage :
        /\ capacity = 0 \/ sliceNum <= capacity
        /\ InitWith(capacity, sliceNum, maxAverageNum)

Faulted == \E i \in Slices : lfuSliceCaches_[i].fault

Live(e) == DOMAIN e.nodeMap_

\* The keys a call that took engine e to engine f erased from the index.
Evicted(e, f) == Live(e) \ Live(f)

\* Whether the addFreqNum of the call that left engine f ran an aging pass:
\* the pass leaves curAverageNum_ as addFreqNum computed it.
Aged(f) == ~f.fault /\ f.curAverageNum_ > f.maxAverageNum_

\* The ranks of arrival after a call on key k took engine e to engine f: k
\* and every key whose frequency the call changed arrive now.
Arrivals(e, f, k) ==
    LET top == MaxKey + 1
        raw == [j \in Keys |->
                   IF j \notin Live(f) THEN 0
                   ELSE IF j = k \/ j \notin Live(e)
                           \/ e.nodeMap_[j].freq # f.nodeMap_[j].freq
                   THEN top
                   ELSE since[j]]
    IN  [j \in Keys |->
            IF j \in Live(f)
            THEN 1 + Cardinality({raw[h] : h \in {x \in Live(f) : raw[x] < raw[j]}})
            ELSE IF j \in Live(e) THEN 0 ELSE since[j]]

\* What the uninitialised key of a tail sentinel may hold, where a put of key
\* k on engine e reads it.
TailKeys(e, k) ==
    IF /\ e.capacity_ # 0 /\ k \notin Live(e) /\ Size(e) = e.capacity_
       /\ e.minFreq_ \in DOMAIN e.freqToFreqList_
       /\ isEmpty(e.freqToFreqList_[e.minFreq_])
    THEN Keys \cup {NoKey}
    ELSE {NoKey}

\* The keys in ascending order: one order in which nodeMap_ may iterate.
Ascending == [i \in 1..MaxKey |-> i]

\* The engines a put may leave: one for each order in which nodeMap_ may
\* iterate in the aging pass, where the put runs one.
PutOutcomes(e, k, v, tailKey) ==
    LET f == put(e, k, v, tailKey, Ascending)
    IN  IF e.capacity_ # 0 /\ Aged(f)
        THEN {put(e, k, v, tailKey, order) : order \in Perms(Live(f))}
        ELSE {f}

\* The results a get may have, likewise.
GetOutcomes(e, k, out) ==
    LET r == get(e, k, out, Ascending)
    IN  IF r.ret /\ Aged(r.engine)
        THEN {get(e, k, out, order) : order \in Perms(Live(e))}
        ELSE {r}

\* The accesses counted by all engines together.
TotalCounted == 
    LET RECURSIVE sum(_)
        sum(S) == IF S = {} THEN 0
                  ELSE LET i == CHOOSE x \in S : TRUE
                       IN  lfuSliceCaches_[i].curTotalNum_ + sum(S \ {i})
    IN  sum(Slices)

\* KHashLfuCache::put
Put(k, v, low, high) ==
    /\ ~Faulted
    /\ low <= TotalCounted /\ TotalCounted < high
    /\ LET i == SliceIndex(k, sliceNum_)
           e == lfuSliceCaches_[i]
       IN  \E tailKey \in TailKeys(e, k) :
             \E f \in PutOutcomes(e, k, v, tailKey) :
                /\ lfuSliceCaches_' = [lfuSliceCaches_ EXCEPT ![i] = f]
                /\ op' = [name |-> "put", key |-> k, value |-> v,
                          ret |-> FALSE, out |-> NoValue,
                          evicted |-> Evicted(e, f),
                          aged |-> e.capacity_ # 0 /\ Aged(f)]
                /\ written' = [j \in Keys |->
                                  IF j = k THEN v
                                  ELSE IF j \in Evicted(e, f) THEN NoValue
                                  ELSE written[j]]
                /\ since' = Arrivals(e, f, k)
                /\ untouched' =
                       IF e.capacity_ = 0 THEN untouched
                       ELSE IF k \in Live(e) THEN untouched \ {k}
                       ELSE (untouched \ Evicted(e, f)) \cup {k}
    /\ UNCHANGED <<capacity_, sliceNum_, threads, mutex_>>

\* KHashLfuCache::get(Key, Value&), called with a value variable holding
\* Unset.
Get(k, low, high) ==
    /\ ~Faulted
    /\ low <= TotalCounted /\ TotalCounted < high
    /\ LET i == SliceIndex(k, sliceNum_)
           e == lfuSliceCaches_[i]
       IN  \E r \in GetOutcomes(e, k, Unset) :
                /\ lfuSliceCaches_' = [lfuSliceCaches_ EXCEPT ![i] = r.engine]
                /\ op' = [name |-> "get", key |-> k, value |-> NoValue,
                          ret |-> r.ret, out |-> r.out, evicted |-> {},
                          aged |-> r.ret /\ Aged(r.engine)]
                /\ since' = Arrivals(e, r.engine, k)
    /\ untouched' = untouched \ {k}
    /\ UNCHANGED <<capacity_, sliceNum_, written, threads, mutex_>>

\* KHashLfuCache::purge
Purge ==
    /\ ~Faulted
    /\ lfuSliceCaches_' = [i \in Slices |-> purge(lfuSliceCaches_[i])]
    /\ op' = [NoOp EXCEPT !.name = "purge"]
    /\ written' = [k \in Keys |-> NoValue]
    /\ since' = [k \in Keys |-> 0]
    /\ untouched' = {}
    /\ UNCHANGED <<capacity_, sliceNum_, threads, mutex_>>

Next ==
    \/ \E k \in Keys, v \in Values : Put(k, v, 0, MaxTotal)
    \/ \E k \in Keys : Get(k, 0, MaxTotal)
    \/ Purge

\* The long runs: the calls of Next while the accesses counted are about
\* INT8_MAX.
HotLow == INT8_MAX - HotLead
HotHigh == INT8_MAX + HotSlack

\* One engine of capacity 1 whose aging pass lowers no frequency.
InitHot == InitWith(1, 1, 1)

\* The long runs: a first put, then gets, and once the accesses counted are
\* about INT8_MAX the calls of Next.
NextHot ==
    \/ \E k \in Keys, v \in Values : Put(k, v, 0, 1)
    \/ \E k \in Keys : Get(k, 1, HotHigh)
    \/ \E k \in Keys, v \in Values : Put(k, v, HotLow, HotHigh)
    \/ HotLow <= TotalCounted /\ Purge

Spec == Init /\ [][Next]_vars

SpecHot == InitHot /\ [][NextHot]_vars

\* ---------------------------------------------------------------- threads
\* Calls made by threads of one process.  A put or get is the steps: take
\* mutex_ (the lock_guard), nodeMap_.find, the rest of the call, release
\* mutex_.  A purge takes no lock: for each slice in turn it is the steps
\* nodeMap_.clear() and freqToFreqList_.clear().

\* A cache with entries in every slice, or one of capacity 0.
InitConc ==
    \E capacity \in {0, MaxCapacity}, sliceNum \in 1..MaxSlices :
        InitWith(capacity, sliceNum, MaxAverage)

At(t, pc) == threads[t].pc = pc

\* KHashLfuCache::put up to ILfuCache::put's test of capacity_.
CallPut(t, k, v) ==
    /\ ~Faulted /\ At(t, "idle")
    /\ TotalCounted < ConcTotal
    /\ LET i == SliceIndex(k, sliceNum_) IN
       threads' = [threads EXCEPT ![t] =
           [pc |-> IF lfuSliceCaches_[i].capacity_ = 0 THEN "idle" ELSE "lock",
            name |-> "put", key |-> k, value |-> v, slice |-> i,
            found |-> FALSE]]
    /\ UNCHANGED <<capacity_, sliceNum_, lfuSliceCaches_, op, written, since,
                   untouched, mutex_>>

\* KHashLfuCache::get up to ILfuCache::get's lock_guard.
CallGet(t, k) ==
    /\ ~Faulted /\ At(t, "idle")
    /\ TotalCounted < ConcTotal
    /\ threads' = [threads EXCEPT ![t] =
           [pc |-> "lock", name |-> "get", key |-> k, value |-> Unset,
            slice |-> SliceIndex(k, sliceNum_), found |-> FALSE]]
    /\ UNCHANGED <<capacity_, sliceNum_, lfuSliceCaches_, op, written, since,
                   untouched, mutex_>>

\* KHashLfuCache::purge up to its first call of ILfuCache::purge.
CallPurge(t) ==
    /\ ~Faulted /\ At(t, "idle")
    /\ threads' = [threads EXCEPT ![t] =
           [Idle EXCEPT !.pc = "clearMap", !.name = "purge"]]
    /\ UNCHANGED <<capacity_, sliceNum_, lfuSliceCaches_, op, written, since,
                   untouched, mutex_>>

\* std::lock_guard<std::mutex> lock(mutex_)
Lock(t) ==
    /\ ~Faulted /\ At(t, "lock")
    /\ mutex_[threads[t].slice] = NoThread
    /\ mutex_' = [mutex_ EXCEPT ![threads[t].slice] = t]
    /\ threads' = [threads EXCEPT ![t].pc = "find"]
    /\ UNCHANGED <<capacity_, sliceNum_, lfuSliceCaches_, op, written, since,
                   untouched>>

\* auto it = nodeMap_.find(key), and the return of a get that misses.
Find(t) ==
    /\ ~Faulted /\ At(t, "find")
    /\ LET th == threads[t]
           hit == th.key \in Live(lfuSliceCaches_[th.slice])
       IN  threads' = [threads EXCEPT
               ![t].found = hit,
               ![t].pc = IF th.name = "get" /\ ~hit THEN "unlock" ELSE "apply"]
    /\ UNCHANGED <<capacity_, sliceNum_, lfuSliceCaches_, op, written, since,
                   untouched, mutex_>>

\* The engines the rest of thread th's call may leave.  The iterator of a
\* key that has left the index since nodeMap_.find dangles: its use is the
\* fault.
ApplyOutcomes(e, th) ==
    IF th.found /\ th.key \notin Live(e) THEN {[e EXCEPT !.fault = TRUE]}
    ELSE IF th.name = "put"
    THEN UNION {PutOutcomes(e, th.key, th.value, tailKey) :
                    tailKey \in TailKeys(e, th.key)}
    ELSE {r.engine : r \in GetOutcomes(e, th.key, Unset)}

\* A put or get from after nodeMap_.find to its return statement.
Apply(t) ==
    /\ ~Faulted /\ At(t, "apply")
    /\ \E f \in ApplyOutcomes(lfuSliceCaches_[threads[t].slice], threads[t]) :
           lfuSliceCaches_' = [lfuSliceCaches_ EXCEPT ![threads[t].slice] = f]
    /\ threads' = [threads EXCEPT ![t].pc = "unlock"]
    /\ UNCHANGED <<capacity_, sliceNum_, op, written, since, untouched, mutex_>>

\* The return of a put or get that leaves mutex_ locked.
Unlock_keepLocked(t) ==
    /\ ~Faulted /\ At(t, "unlock")
    /\ threads' = [threads EXCEPT ![t].pc = "idle"]
    /\ UNCHANGED <<capacity_, sliceNum_, lfuSliceCaches_, op, written, since,
                   untouched, mutex_>>

\* The lock_guard's destructor, as the call returns.
Unlock(t) ==
    /\ ~Faulted /\ At(t, "unlock")
    /\ mutex_' = [mutex_ EXCEPT ![threads[t].slice] = NoThread]
    /\ threads' = [threads EXCEPT ![t].pc = "idle"]
    /\ UNCHANGED <<capacity_, sliceNum_, lfuSliceCaches_, op, written, since,
                   untouched>>

\* ILfuCache::purge: nodeMap_.clear()
ClearMap(t) ==
    /\ ~Faulted /\ At(t, "clearMap")
    /\ lfuSliceCaches_' =
           [lfuSliceCaches_ EXCEPT
               ![threads[t].slice] = clearMap(lfuSliceCaches_[threads[t].slice])]
    /\ threads' = [threads EXCEPT ![t].pc = "clearLists"]
    /\ UNCHANGED <<capacity_, sliceNum_, op, written, since, untouched, mutex_>>

\* ILfuCache::purge: freqToFreqList_.clear(), and the step of
\* KHashLfuCache::purge's loop to the next slice.
ClearLists(t) ==
    /\ ~Faulted /\ At(t, "clearLists")
    /\ lfuSliceCaches_' =
           [lfuSliceCaches_ EXCEPT
               ![threads[t].slice] =
                   clearLists(lfuSliceCaches_[threads[t].slice])]
    /\ threads' = [threads EXCEPT ![t] =
           IF threads[t].slice + 1 < sliceNum_
           THEN [threads[t] EXCEPT !.pc = "clearMap",
                                   !.slice = threads[t].slice + 1]
           ELSE [threads[t] EXCEPT !.pc = "idle"]]
    /\ UNCHANGED <<capacity_, sliceNum_, op, written, since, untouched, mutex_>>

\* The steps of threads that call put and get.
NextPutGet ==
    \E t \in Threads :
        \/ \E k \in Keys, v \in 1..ConcValue : CallPut(t, k, v)
        \/ \E k \in Keys : CallGet(t, k)
        \/ Lock(t)
        \/ Find(t)
        \/ Apply(t)
        \/ Unlock(t)

\* The steps of threads that call put, get and purge.
NextConc ==
    \/ NextPutGet
    \/ \E t \in Threads : CallPurge(t)
    \/ \E t \in Threads : ClearMap(t)
    \/ \E t \in Threads : ClearLists(t)

SpecConc == InitConc /\ [][NextConc]_vars

\* The scheduler runs every thread that can take a step, and a thread that
\* can take mutex_ again and again gets it.
Fairness ==
    \A t \in Threads :
        /\ WF_vars(Find(t) \/ Apply(t) \/ Unlock(t))
        /\ SF_vars(Lock(t))

\* Threads that call put and get under a fair scheduler.
SpecPutGet == InitConc /\ [][NextPutGet]_vars /\ Fairness

\* ------------------------------------------------------------- properties
\* The engine that holds key k, and the least frequency among its entries.
EngineOf(k) == lfuSliceCaches_[Hash(k) % sliceNum_]

LeastFreq(e) ==
    CHOOSE m \in {e.nodeMap_[j].freq : j \in Live(e)} :
        \A j \in Live(e) : m <= e.nodeMap_[j].freq

\* The step is a put of the absent key k into its full engine.
PutIntoFull(k) ==
    /\ op'.name = "put" /\ op'.key = k
    /\ EngineOf(k).capacity_ >= 1
    /\ k \notin Live(EngineOf(k))
    /\ Size(EngineOf(k)) = EngineOf(k).capacity_

\* C1. Capacity bound: after every call the index of every engine holds at
\* most capacity_ entries.
CapacityBound ==
    \A i \in Slices : Size(lfuSliceCaches_[i]) <= lfuSliceCaches_[i].capacity_

\* C2. LFU eviction: a put of an absent key into a full engine removes
\* exactly one entry from the index, one whose frequency was the least among
\* the entries of the engine, and leaves the new key in the index.
LfuEviction ==
    [][\A k \in Keys :
          PutIntoFull(k) =>
              \E x \in Live(EngineOf(k)) :
                  /\ Live(EngineOf(k))' = (Live(EngineOf(k)) \ {x}) \cup {k}
                  /\ EngineOf(k).nodeMap_[x].freq = LeastFreq(EngineOf(k))]_vars

\* C3. FIFO tie-break: the entry an eviction removes has the least frequency,
\* and no entry of that frequency arrived at it earlier.
FifoTieBreak ==
    [][\A k \in Keys :
          PutIntoFull(k) =>
              \A x \in op'.evicted :
                  /\ EngineOf(k).nodeMap_[x].freq = LeastFreq(EngineOf(k))
                  /\ \A j \in Live(EngineOf(k)) :
                         EngineOf(k).nodeMap_[j].freq = LeastFreq(EngineOf(k))
                             => since[x] <= since[j]]_vars

\* C4. Round trip: on an engine of capacity at least 1, a get of a key that
\* was put and not evicted or purged since hits and returns the value of the
\* key's last put.
RoundTrip ==
    (/\ op.name = "get"
     /\ EngineOf(op.key).capacity_ >= 1
     /\ written[op.key] # NoValue)
        => op.ret /\ op.out = written[op.key]

\* A get that ran an aging pass on a full engine returned what was put.
RoundTripWitness ==
    /\ op.name = "get" /\ op.ret /\ op.aged
    /\ written[op.key] \in Values /\ op.out = written[op.key]
    /\ Size(EngineOf(op.key)) = EngineOf(op.key).capacity_
    /\ EngineOf(op.key).capacity_ >= 2

\* Every key of the index of e is linked in the list of its frequency.
Linked(e) ==
    \A k \in Live(e) :
        /\ e.nodeMap_[k].freq \in DOMAIN e.freqToFreqList_
        /\ LiveNode(k) \in Range(e.freqToFreqList_[e.nodeMap_[k].freq])

\* C5. Same-shard serialization: no put or get is under way on an engine
\* that a purge has half cleared, and once every call has returned every key
\* of an index is linked in the list of its frequency.
SameShardSerialized ==
    /\ \A t, u \in Threads :
          ~(/\ threads[t].pc \in {"find", "apply", "unlock"}
            /\ threads[u].pc = "clearLists"
            /\ threads[u].slice = threads[t].slice)
    /\ (\A t \in Threads : At(t, "idle")) =>
          \A i \in Slices : Linked(lfuSliceCaches_[i])

\* C6. Aging keeps entries evictable and values intact: a get that hits
\* changes no stored value and no key of the index, and when the last call
\* was a get that hit key h in a full engine of capacity at least 2 that
\* also holds a key never accessed since its insertion, a put of an absent
\* key leaves h in the index with its value.
AgingKeepsHot ==
    [][/\ \A h \in Keys :
            (op'.name = "get" /\ op'.key = h /\ op'.ret) =>
                /\ Live(EngineOf(h))' = Live(EngineOf(h))
                /\ \A j \in Live(EngineOf(h)) :
                       EngineOf(h).nodeMap_[j].value' =
                           EngineOf(h).nodeMap_[j].value
       /\ \A h, k \in Keys :
            (/\ op.name = "get" /\ op.key = h /\ op.ret
             /\ EngineOf(h) = EngineOf(k)
             /\ PutIntoFull(k)
             /\ EngineOf(h).capacity_ >= 2
             /\ (Live(EngineOf(h)) \cap untouched) \ {h} # {}) =>
                /\ h \in Live(EngineOf(h))'
                /\ EngineOf(h).nodeMap_[h].value' =
                       EngineOf(h).nodeMap_[h].value]_vars

\* C7. Purge empties and is idempotent: purging any engine leaves no entry
\* and no frequency list, keeps capacity_ and maxAverageNum_, makes every get
\* miss, and purging again changes nothing; after the wrapper's purge every
\* slice is empty, and purging a cache never used changes nothing.
PurgeEmpties ==
    /\ \A i \in Slices :
          LET e == lfuSliceCaches_[i]
              p == purge(e)
          IN  /\ Live(p) = {} /\ DOMAIN p.freqToFreqList_ = {}
              /\ p.capacity_ = e.capacity_
              /\ p.maxAverageNum_ = e.maxAverageNum_
              /\ \A k \in Keys : ~get(p, k, Unset, Ascending).ret
              /\ purge(p) = p
              /\ op.name = "new" => p = e
    /\ op.name = "purge" =>
          \A i \in Slices :
              /\ Live(lfuSliceCaches_[i]) = {}
              /\ DOMAIN lfuSliceCaches_[i].freqToFreqList_ = {}

\* A purge of a cache of two slices, both of which had counted accesses.
PurgeWitness ==
    /\ op.name = "purge" /\ sliceNum_ >= 2
    /\ \A i \in Slices : lfuSliceCaches_[i].curTotalNum_ > 0

\* C8. Disabled cache: with capacity 0 every engine stays as constructed,
\* whatever is put, and every get misses.
DisabledCache ==
    capacity_ = 0 =>
        /\ \A i \in Slices :
              lfuSliceCaches_[i] =
                  NewEngine(0, lfuSliceCaches_[i].maxAverageNum_)
        /\ op.name = "get" => ~op.ret

\* A get, on a cache of capacity 0 and two slices, of a key that was put.
DisabledWitness ==
    /\ capacity_ = 0 /\ sliceNum_ >= 2
    /\ op.name = "get" /\ ~op.ret /\ written[op.key] \in Values

\* C9. A get miss has no side effect: a get of a key that is not in the index
\* returns false, leaves every engine as it was and does not write to the
\* caller's value.
GetMissNoEffect ==
    [][\A k \in Keys :
          (op'.name = "get" /\ op'.key = k /\ k \notin Live(EngineOf(k))) =>
              /\ ~op'.ret
              /\ op'.out = Unset
              /\ lfuSliceCaches_' = lfuSliceCaches_]_vars

\* A get missed on an engine that holds entries.
GetMissWitness ==
    /\ op.name = "get" /\ ~op.ret /\ op.out = Unset
    /\ Size(EngineOf(op.key)) >= 1
    /\ op.key \notin Live(EngineOf(op.key))

\* C10. Shard routing and isolation: a put or get of key k changes no slice
\* but the one of index Hash(k) mod sliceNum_, and every key of an index is
\* in the slice its hash selects.
ShardRouting ==
    [][/\ \A k \in Keys :
            (op'.name \in {"put", "get"} /\ op'.key = k) =>
                \A j \in Slices \ {Hash(k) % sliceNum_} :
                    lfuSliceCaches_'[j] = lfuSliceCaches_[j]
       /\ \A i \in Slices :
            \A k \in Live(lfuSliceCaches_'[i]) : i = Hash(k) % sliceNum_]_vars

\* A put on a cache of two slices that both hold entries.
ShardWitness ==
    /\ op.name = "put" /\ sliceNum_ >= 2
    /\ \A i \in Slices : Size(lfuSliceCaches_[i]) >= 1

\* The thread inside the lock_guard of engine i, if any holds it.
InCall(t) == threads[t].pc \in {"find", "apply", "unlock"}

\* C11. Deadlock freedom across shards: a thread inside a put or get holds
\* the lock of the slice of its key and no other lock, while any call is
\* under way some thread can take a step, a step changes no engine but the
\* one whose lock the stepping thread holds, and every call that has started
\* returns.
DeadlockFree ==
    /\ [](\A t \in Threads, i \in Slices :
             mutex_[i] = t <=> (InCall(t) /\ threads[t].slice = i))
    /\ []((\E t \in Threads : ~At(t, "idle")) =>
             \E t \in Threads :
                 ENABLED (Lock(t) \/ Find(t) \/ Apply(t) \/ Unlock(t)))
    /\ [][\A i \in Slices :
             lfuSliceCaches_'[i] # lfuSliceCaches_[i] =>
                 \E t \in Threads :
                     /\ At(t, "apply") /\ mutex_[i] = t
                     /\ threads[t].slice = i
                     /\ i = Hash(threads[t].key) % sliceNum_]_vars
    /\ \A t \in Threads : ~At(t, "idle") ~> At(t, "idle")

\* Two threads are past their changes of two different engines, each still
\* holding the lock of its own.
DeadlockFreeWitness ==
    /\ sliceNum_ >= 2
    /\ \E t, u \in Threads :
          /\ At(t, "unlock") /\ At(u, "unlock")
          /\ threads[t].slice # threads[u].slice
          /\ Size(lfuSliceCaches_[threads[t].slice]) >= 1
          /\ Size(lfuSliceCaches_[threads[u].slice]) >= 1

\* The frequencies of engine e whose list links a node, and the least member
\* of a set of numbers.
NonEmptyFreqs(e) ==
    {f \in DOMAIN e.freqToFreqList_ : ~isEmpty(e.freqToFreqList_[f])}

Least(S) == CHOOSE m \in S : \A x \in S : m <= x

\* C12. minFrequency invariant: after a put or get that leaves entries in
\* the engine of its key, minFreq_ is the least frequency whose list is not
\* empty.
MinFreqExact ==
    (op.name \in {"put", "get"} /\ Size(EngineOf(op.key)) >= 1) =>
        /\ NonEmptyFreqs(EngineOf(op.key)) # {}
        /\ EngineOf(op.key).minFreq_ = Least(NonEmptyFreqs(EngineOf(op.key)))

\* C13. Eviction precondition: when a put of an absent key finds its engine
\* full, the list of minFreq_ exists and its first node is the indexed node
\* of an entry.
EvictionPrecondition ==
    [][\A k \in Keys :
          PutIntoFull(k) =>
              /\ EngineOf(k).minFreq_ \in DOMAIN EngineOf(k).freqToFreqList_
              /\ ~isEmpty(EngineOf(k).freqToFreqList_[EngineOf(k).minFreq_])
              /\ Head(EngineOf(k).freqToFreqList_[EngineOf(k).minFreq_]).live]_vars

\* The sum of the frequencies of the entries of engine e.
SumFreq(e) ==
    LET RECURSIVE sum(_)
        sum(S) == IF S = {} THEN 0
                  ELSE LET k == CHOOSE x \in S : TRUE
                       IN  e.nodeMap_[k].freq + sum(S \ {k})
    IN  sum(Live(e))

\* C14. Running-total invariant: after every call curTotalNum_ of an engine
\* is the sum of the frequencies of its entries and curAverageNum_ is that
\* sum divided by the number of entries, 0 when there is none.
TotalIsSum ==
    \A i \in Slices :
        /\ lfuSliceCaches_[i].curTotalNum_ = SumFreq(lfuSliceCaches_[i])
        /\ lfuSliceCaches_[i].curAverageNum_ =
               IF Size(lfuSliceCaches_[i]) = 0 THEN 0
               ELSE SumFreq(lfuSliceCaches_[i]) \div Size(lfuSliceCaches_[i])

\* The places of the lists of engine e that link a node of key k.
Links(e, k) ==
    {<<f, n>> \in (DOMAIN e.freqToFreqList_) \X (1..(MaxKey + 1)) :
        /\ n <= Len(e.freqToFreqList_[f])
        /\ e.freqToFreqList_[f][n].key = k}

\* C15. Bucket membership invariant: every entry of an index has a frequency
\* of at least 1 and is linked once, in the list of its frequency, and every
\* node a list links is the indexed node of an entry.
BucketMembership ==
    \A i \in Slices :
        /\ \A k \in Live(lfuSliceCaches_[i]) :
              /\ lfuSliceCaches_[i].nodeMap_[k].freq >= 1
              /\ \E n \in 1..(MaxKey + 1) :
                     Links(lfuSliceCaches_[i], k) =
                         {<<lfuSliceCaches_[i].nodeMap_[k].freq, n>>}
        /\ \A f \in DOMAIN lfuSliceCaches_[i].freqToFreqList_ :
              \A n \in 1..Len(lfuSliceCaches_[i].freqToFreqList_[f]) :
                  /\ lfuSliceCaches_[i].freqToFreqList_[f][n].live
                  /\ lfuSliceCaches_[i].freqToFreqList_[f][n].key
                         \in Live(lfuSliceCaches_[i])

\* The frequency of key j in engine e once a call on key k has counted its
\* access, before any aging pass.
Counted(e, k, j) ==
    IF j # k THEN e.nodeMap_[j].freq
    ELSE IF k \in Live(e) THEN e.nodeMap_[k].freq + 1
    ELSE 1

Max(a, b) == IF a >= b THEN a ELSE b

\* C16. Aging pass result: a put or get that leaves curAverageNum_ over
\* maxAverageNum_ leaves every entry with its frequency lowered by half of
\* maxAverageNum_, not below 1, and linked in the list of that frequency,
\* and the pass changes no key of the index and no value; a call that leaves
\* the average at or under maxAverageNum_ lowers no frequency.
AgingPassResult ==
    [][\A k \in Keys :
          (/\ op'.name \in {"put", "get"} /\ op'.key = k
           /\ EngineOf(k).capacity_ >= 1
           /\ k \in Live(EngineOf(k))') =>
              /\ Live(EngineOf(k))' = (Live(EngineOf(k)) \ op'.evicted) \cup {k}
              /\ \A j \in Live(EngineOf(k))' \ {k} :
                     EngineOf(k).nodeMap_[j].value' =
                         EngineOf(k).nodeMap_[j].value
              /\ op'.name = "get" =>
                     EngineOf(k).nodeMap_[k].value' =
                         EngineOf(k).nodeMap_[k].value
              /\ op'.name = "put" =>
                     EngineOf(k).nodeMap_[k].value' = op'.value
              /\ Aged(EngineOf(k))' =>
                     /\ Linked(EngineOf(k))'
                     /\ \A j \in Live(EngineOf(k))' :
                            EngineOf(k).nodeMap_[j].freq' =
                                Max(Counted(EngineOf(k), k, j)
                                        - (EngineOf(k).maxAverageNum_ \div 2),
                                    1)
              /\ ~Aged(EngineOf(k))' =>
                     \A j \in Live(EngineOf(k))' :
                         EngineOf(k).nodeMap_[j].freq' =
                             Counted(EngineOf(k), k, j)]_vars

\* An aging pass has lowered one entry of a full engine and has held
\* another at frequency 1.
AgingPassWitness ==
    /\ op.name \in {"put", "get"} /\ op.aged
    /\ EngineOf(op.key).maxAverageNum_ >= 2
    /\ Size(EngineOf(op.key)) >= 2
    /\ \E j, h \in Live(EngineOf(op.key)) :
          /\ EngineOf(op.key).nodeMap_[j].freq >= 2
          /\ EngineOf(op.key).nodeMap_[h].freq = 1

\* The sum, over the entries of engine f, of their frequencies once a call
\* on key k that took engine e to f has counted its access.
CountedSum(e, f, k) ==
    LET RECURSIVE sum(_)
        sum(S) == IF S = {} THEN 0
                  ELSE LET j == CHOOSE x \in S : TRUE
                       IN  Counted(e, k, j) + sum(S \ {j})
    IN  sum(Live(f))

\* C17. Aging fires only when the ceiling is crossed: a put or get runs an
\* aging pass only if the sum of the frequencies of the entries, with the
\* access counted, divided by the number of entries is over maxAverageNum_.
AgingOnlyOverCeiling ==
    [][\A k \in Keys :
          (op'.name \in {"put", "get"} /\ op'.key = k /\ op'.aged) =>
              CountedSum(EngineOf(k), EngineOf(k)', k) \div Size(EngineOf(k))'
                  > EngineOf(k).maxAverageNum_]_vars

\* C18. Bounded frequencies: no entry of an engine of capacity C and ceiling
\* M has a frequency over (M + 1) * C.
FreqBounded ==
    \A i \in Slices :
        \A k \in Live(lfuSliceCaches_[i]) :
            lfuSliceCaches_[i].nodeMap_[k].freq <=
                (lfuSliceCaches_[i].maxAverageNum_ + 1)
                    * lfuSliceCaches_[i].capacity_

\* The calls of put and get, and the sequences of at most MaxRun of them.
Calls ==
    [name : {"put"}, key : Keys, value : Values]
        \cup [name : {"get"}, key : Keys, value : {Unset}]

Runs == UNION {[1..n -> Calls] : n \in 0..MaxRun}

\* What call c on engine e does and shows, where nodeMap_ iterates in
\* ascending order: the engine afterwards, the result, the keys evicted and
\* whether an aging pass ran.
Observe(e, c) ==
    IF c.name = "put"
    THEN LET f == put(e, c.key, c.value, NoKey, Ascending)
         IN  [engine |-> f, ret |-> FALSE, out |-> NoValue,
              evicted |-> Evicted(e, f),
              aged |-> e.capacity_ # 0 /\ Aged(f)]
    ELSE LET r == get(e, c.key, c.value, Ascending)
         IN  [engine |-> r.engine, ret |-> r.ret, out |-> r.out,
              evicted |-> {}, aged |-> r.ret /\ Aged(r.engine)]

\* What the calls of run show one after the other, from engine e on.
RECURSIVE Shown(_, _)
Shown(e, run) ==
    IF Len(run) = 0 THEN <<>>
    ELSE LET o == Observe(e, Head(run))
         IN  <<[ret |-> o.ret, out |-> o.out, evicted |-> o.evicted,
                aged |-> o.aged]>> \o Shown(o.engine, Tail(run))

\* C19. Purge is equivalent to a fresh engine: whatever calls follow, an
\* engine that was purged shows the results, evictions and aging passes of
\* an engine just constructed with its capacity_ and maxAverageNum_.
PurgeIsFresh ==
    \A i \in Slices :
        \A run \in Runs :
            Shown(purge(lfuSliceCaches_[i]), run) =
                Shown(NewEngine(lfuSliceCaches_[i].capacity_,
                                lfuSliceCaches_[i].maxAverageNum_), run)

\* The step is a get of key k that hits, or a put of key k to an engine that
\* holds it.
Hit(k) ==
    /\ op'.key = k /\ k \in Live(EngineOf(k))
    /\ \/ op'.name = "get"
       \/ op'.name = "put" /\ EngineOf(k).capacity_ # 0

\* C20. Hit effect and frame: a get that hits and a put of a key already
\* present evict nothing and keep the keys of the index; the put stores its
\* value and the get keeps the stored one; without an aging pass the call
\* raises the key's frequency by 1, links the key last in the list of the
\* new frequency, keeps the value and frequency of every other entry and the
\* order of the other nodes of every list, and steps minFreq_ by 1 exactly
\* when the key was the only node of the list of minFreq_, else by 0.
HitFrame ==
    [][\A k \in Keys :
          Hit(k) =>
              /\ op'.evicted = {}
              /\ Live(EngineOf(k))' = Live(EngineOf(k))
              /\ EngineOf(k).nodeMap_[k].value' =
                     IF op'.name = "put" THEN op'.value
                     ELSE EngineOf(k).nodeMap_[k].value
              /\ op'.name = "get" =>
                     op'.ret /\ op'.out = EngineOf(k).nodeMap_[k].value
              /\ ~op'.aged =>
                     /\ EngineOf(k).nodeMap_[k].freq' =
                            EngineOf(k).nodeMap_[k].freq + 1
                     /\ EngineOf(k).nodeMap_[k].freq + 1
                            \in DOMAIN EngineOf(k).freqToFreqList_'
                     /\ LET list == EngineOf(k).freqToFreqList_'[
                                        EngineOf(k).nodeMap_[k].freq + 1]
                        IN  Len(list) >= 1 /\ list[Len(list)] = LiveNode(k)
                     /\ \A j \in Live(EngineOf(k)) \ {k} :
                            EngineOf(k).nodeMap_[j]' = EngineOf(k).nodeMap_[j]
                     /\ \A f \in DOMAIN EngineOf(k).freqToFreqList_ :
                            RemoveFirst(EngineOf(k).freqToFreqList_'[f],
                                        LiveNode(k)) =
                                RemoveFirst(EngineOf(k).freqToFreqList_[f],
                                            LiveNode(k))
                     /\ EngineOf(k).minFreq_' =
                            IF /\ EngineOf(k).minFreq_
                                      \in DOMAIN EngineOf(k).freqToFreqList_
                               /\ EngineOf(k).freqToFreqList_[
                                      EngineOf(k).minFreq_] = <<LiveNode(k)>>
                            THEN EngineOf(k).minFreq_ + 1
                            ELSE EngineOf(k).minFreq_]_vars

\* A get has hit a full engine of two entries without an aging pass and has
\* stepped minFreq_.
HitFrameWitness ==
    /\ op.name = "get" /\ op.ret /\ ~op.aged
    /\ EngineOf(op.key).capacity_ = 2 /\ Size(EngineOf(op.key)) = 2
    /\ EngineOf(op.key).minFreq_ >= 2
    /\ \A j \in Live(EngineOf(op.key)) :
          EngineOf(op.key).nodeMap_[j].freq >= EngineOf(op.key).minFreq_
====
